---- MODULE Spec2Model ----
(***************************************************************************)
(* State tracker: StateTrackerClient handles (state_tracker_client.rs)     *)
(* push TrackedData onto a bounded tokio mpsc channel; the StateTracker    *)
(* task (state_tracker.rs) drains the channel and writes every item,       *)
(* serialized, to a UnixDatagram socket.                                   *)
(*                                                                         *)
(* Time is counted in ticks of 1/TicksPerSec second, so that the whole-    *)
(* second truncation of Duration::as_secs is part of the model.            *)
(***************************************************************************)
EXTENDS Integers, Sequences, FiniteSets, TLC

\* ------------------------------------------------------------------ bounds
MaxTime == 2             \* ticks the clock may advance
MaxEnqueued == 2         \* send_state calls that may reach the channel in one behaviour
MaxInterval == 1         \* largest state_sender_interval_in_seconds tried
MaxBoundary == 2         \* largest state_tracking_channel_boundary tried
TicksPerSec == 2         \* clock resolution: ticks per second

\* the client build returns, and one clone of it
Handles == {"built", "clone"}

\* ------------------------------------------------------------- state.rs
Idle == <<"Idle">>
Valid == <<"Valid">>
Error(message) == <<"Error", message>>

Messages == {"disk full"}
States == {Idle, Valid} \cup {Error(m) : m \in Messages}

is_error_never(state) == FALSE

\* State::is_error
is_error(state) == state[1] = "Error"

NonErrorStates == {s \in States : ~is_error(s)}

\* ------------------------------------------------------- tracked_data.rs
\* TrackedData::new
TrackedData_new(id, state, timestamp) ==
    [id |-> id, state |-> state, timestamp |-> timestamp]

generate_state_tracking_data_unnamed(id, state, t) == TrackedData_new("default", state, t)

\* generate_state_tracking_data: the timestamp is the clock at the call
generate_state_tracking_data(id, state, t) == TrackedData_new(id, state, t)

NoData == [id |-> "", state |-> <<"none">>, timestamp |-> 0]

\* ------------------------------------------------ state_tracker_client.rs
\* build's placeholder identifier, and the name a reporter gives itself
DefaultId == "default"
Names == {"A"}

as_secs_rounding_up(ticks) == (ticks + TicksPerSec - 1) \div TicksPerSec

\* Duration::as_secs: whole seconds, truncated
as_secs(ticks) == ticks \div TicksPerSec

\* Instant::elapsed at clock t
elapsed(instant, t) == t - instant

StateTrackerClient_new_expired(id, interval, t) ==
    [id |-> id, latest_update |-> t - interval * TicksPerSec,
     update_interval_in_seconds |-> interval]

\* StateTrackerClient::new: latest_update starts at Instant::now()
StateTrackerClient_new(id, interval, t) ==
    [id |-> id, latest_update |-> t, update_interval_in_seconds |-> interval]

NoClient == [id |-> "", latest_update |-> 0, update_interval_in_seconds |-> 0]

VARIABLES
    now,            \* the clock, in ticks (Instant and SystemTime alike)
    boundary,       \* state_tracking_channel_boundary given to build
    clients,        \* handle -> StateTrackerClient struct
    status,         \* handle -> "unused" | "live" | "dropped"
    pc,             \* handle -> "idle" | "sending" (inside send().await)
    tracked_data,   \* handle -> the TrackedData its pending send carries
    ret,            \* how the latest send_state call returned: "suppressed" (Ok,
                    \*   the early return) | "enqueued" (Ok) | "failed" (Err)
    queue,          \* the channel's buffered items
    waiters,        \* handles suspended in send().await, in arrival order (the
                    \*   channel's semaphore serves them first and in this order)
    rx_closed,      \* the Receiver has been dropped
    fwd_pc,         \* the spawned task: "spawned" | "running" | "panicked" | "terminated"
    attempts,       \* the serialized items run() has handed to send_to, in order
    log,            \* the last line run() logged
    enqueued,       \* every item a send accepted, in order
    step,           \* calls of the end-to-end scenario issued so far
    none_parity     \* parity of the number of times recv() returned None

vars == <<now, boundary, clients, status, pc, tracked_data, ret, queue, waiters,
          rx_closed, fwd_pc, attempts, log, enqueued, step, none_parity>>

clientVars == <<clients, status, pc, tracked_data, ret>>
channelVars == <<queue, waiters, rx_closed, enqueued>>
forwarderVars == <<fwd_pc, attempts, log, none_parity>>

Live == {h \in Handles : status[h] = "live"}
NoSenders == Live = {}
Sending == {h \in Handles : pc[h] = "sending"}

suppressed_inclusive(client, state, t) ==
    /\ ~is_error(state)
    /\ as_secs(elapsed(client.latest_update, t)) <= client.update_interval_in_seconds

suppressed_unless_closed(client, state, t) ==
    /\ ~rx_closed
    /\ ~is_error(state)
    /\ as_secs(elapsed(client.latest_update, t)) < client.update_interval_in_seconds

\* the early return of send_state
suppressed(client, state, t) ==
    /\ ~is_error(state)
    /\ as_secs(elapsed(client.latest_update, t)) < client.update_interval_in_seconds

ChannelSendFront(q, tracked) == <<tracked>> \o q

\* mpsc::Sender::send once a slot is free: the item goes to the back
ChannelSend(q, tracked) == Append(q, tracked)

\* ---------------------------------------------------------------- build
\* build: the channel exists, the task is spawned but has not run yet, and the
\* "default" client, created at clock `created`, is returned
BuildState(interval, bound, created, t) ==
    /\ now = t
    /\ boundary = bound
    /\ clients = [h \in Handles |->
                    IF h = "built"
                    THEN StateTrackerClient_new(DefaultId, interval, created)
                    ELSE NoClient]
    /\ status = [h \in Handles |-> IF h = "built" THEN "live" ELSE "unused"]
    /\ pc = [h \in Handles |-> "idle"]
    /\ tracked_data = [h \in Handles |-> NoData]
    /\ ret = "none"
    /\ queue = <<>>
    /\ waiters = <<>>
    /\ rx_closed = FALSE
    /\ fwd_pc = "spawned"
    /\ attempts = <<>>
    /\ log = ""
    /\ enqueued = <<>>
    /\ step = 0
    /\ none_parity = FALSE

Init ==
    \E interval \in 0 .. MaxInterval, bound \in 1 .. MaxBoundary :
        BuildState(interval, bound, 0, 0)

\* ---------------------------------------------------------------- clock
Tick ==
    /\ now < MaxTime
    /\ now' = now + 1
    /\ UNCHANGED <<boundary, clientVars, channelVars, forwarderVars, step>>

\* --------------------------------------------------------------- client
set_id_touching(h, id) ==
    /\ status[h] = "live"
    /\ pc[h] = "idle"
    /\ id # clients[h].id
    /\ clients' = [clients EXCEPT ![h].id = id, ![h].latest_update = now]
    /\ UNCHANGED <<now, boundary, status, pc, tracked_data, ret,
                   channelVars, forwarderVars, step>>

set_id_shared(h, id) ==
    /\ status[h] = "live"
    /\ pc[h] = "idle"
    /\ id # clients[h].id
    /\ clients' = [o \in Handles |->
                     IF status[o] = "live" THEN [clients[o] EXCEPT !.id = id]
                     ELSE clients[o]]
    /\ UNCHANGED <<now, boundary, status, pc, tracked_data, ret,
                   channelVars, forwarderVars, step>>

\* StateTrackerClient::set_id (&mut self: no send of this handle is pending)
set_id(h, id) ==
    /\ status[h] = "live"
    /\ pc[h] = "idle"
    /\ id # clients[h].id
    /\ clients' = [clients EXCEPT ![h].id = id]
    /\ UNCHANGED <<now, boundary, status, pc, tracked_data, ret,
                   channelVars, forwarderVars, step>>

\* #[derive(Clone)]: every field is copied, the Sender is shared
Clone(h, c) ==
    /\ status[h] = "live"
    /\ status[c] = "unused"
    /\ clients' = [clients EXCEPT ![c] = clients[h]]
    /\ status' = [status EXCEPT ![c] = "live"]
    /\ UNCHANGED <<now, boundary, pc, tracked_data, ret,
                   channelVars, forwarderVars, step>>

\* the handle goes out of scope; its Sender is dropped with it
Drop(h) ==
    /\ status[h] = "live"
    /\ pc[h] = "idle"
    /\ status' = [status EXCEPT ![h] = "dropped"]
    /\ clients' = [clients EXCEPT ![h] = NoClient]
    /\ UNCHANGED <<now, boundary, pc, tracked_data, ret,
                   channelVars, forwarderVars, step>>

\* what send().await does with the item once the channel can answer: Err when the
\* Receiver is gone, otherwise the item is queued and send_state returns Ok(());
\* latest_update is written on neither path
SendResolvesIgnoringError(h, tracked) ==
    /\ IF rx_closed
       THEN UNCHANGED <<queue, enqueued>>
       ELSE /\ queue' = ChannelSend(queue, tracked)
            /\ enqueued' = Append(enqueued, tracked)
    /\ ret' = "enqueued"
    /\ pc' = [pc EXCEPT ![h] = "idle"]
    /\ tracked_data' = [tracked_data EXCEPT ![h] = NoData]

SendResolves(h, tracked) ==
    /\ IF rx_closed
       THEN /\ ret' = "failed"
            /\ UNCHANGED <<queue, enqueued>>
       ELSE /\ queue' = ChannelSend(queue, tracked)
            /\ enqueued' = Append(enqueued, tracked)
            /\ ret' = "enqueued"
    /\ pc' = [pc EXCEPT ![h] = "idle"]
    /\ tracked_data' = [tracked_data EXCEPT ![h] = NoData]

\* the channel has a free slot that no suspended sender is waiting for
SlotFree == Len(queue) < boundary /\ waiters = <<>>

Without(seq, h) == SelectSeq(seq, LAMBDA x : x # h)

\* send_state: the early return, or the TrackedData is built and sent; the call
\* suspends inside send().await only while the channel is open and full
send_state(h, state) ==
    /\ status[h] = "live"
    /\ pc[h] = "idle"
    /\ IF suppressed(clients[h], state, now)
       THEN /\ ret' = "suppressed"
            /\ UNCHANGED <<pc, tracked_data, queue, waiters, enqueued>>
       ELSE LET tracked == generate_state_tracking_data(clients[h].id, state, now)
            IN  IF rx_closed \/ SlotFree
                THEN SendResolves(h, tracked) /\ UNCHANGED waiters
                ELSE /\ tracked_data' = [tracked_data EXCEPT ![h] = tracked]
                     /\ pc' = [pc EXCEPT ![h] = "sending"]
                     /\ waiters' = Append(waiters, h)
                     /\ UNCHANGED <<ret, queue, enqueued>>
    /\ UNCHANGED <<now, boundary, clients, status, rx_closed, forwarderVars>>

send_state_resume_discarding(h) ==
    /\ pc[h] = "sending"
    /\ rx_closed \/ (Len(queue) < boundary /\ Head(waiters) = h)
    /\ ret' = IF rx_closed THEN "failed" ELSE "enqueued"
    /\ pc' = [pc EXCEPT ![h] = "idle"]
    /\ tracked_data' = [tracked_data EXCEPT ![h] = NoData]
    /\ waiters' = Without(waiters, h)
    /\ UNCHANGED <<now, boundary, clients, status, queue, enqueued, rx_closed,
                   forwarderVars, step>>

\* a suspended send().await is woken: the Receiver was dropped, or a slot was
\* freed and this sender is the first in line
send_state_resume(h) ==
    /\ pc[h] = "sending"
    /\ rx_closed \/ (Len(queue) < boundary /\ Head(waiters) = h)
    /\ SendResolves(h, tracked_data[h])
    /\ waiters' = Without(waiters, h)
    /\ UNCHANGED <<now, boundary, clients, status, rx_closed, forwarderVars, step>>

\* a send_state call made by the embedding code
Report(h, state) ==
    /\ suppressed(clients[h], state, now)
       \/ Len(enqueued) + Cardinality(Sending) < MaxEnqueued
    /\ send_state(h, state)
    /\ UNCHANGED step

\* ------------------------------------------------------------ forwarder
to_vec_whole_seconds(tracked) ==
    [id |-> tracked.id,
     state |-> [variant |-> tracked.state[1], content |-> Tail(tracked.state)],
     timestamp |-> [secs_since_epoch |-> tracked.timestamp \div TicksPerSec,
                    subsec_ticks |-> 0]]

\* serde_json::to_vec of a TrackedData: the state as its variant name with the
\* variant's content (the message of Error, nothing for Idle and Valid), the
\* SystemTime as whole seconds since the epoch and the rest below a second
to_vec(tracked) ==
    [id |-> tracked.id,
     state |-> [variant |-> tracked.state[1], content |-> Tail(tracked.state)],
     timestamp |-> [secs_since_epoch |-> tracked.timestamp \div TicksPerSec,
                    subsec_ticks |-> tracked.timestamp % TicksPerSec]]

\* serde_json::from_slice::<TrackedData>, as a receiver decodes the datagram
from_slice(bytes) ==
    [id |-> bytes.id,
     state |-> <<bytes.state.variant>> \o bytes.state.content,
     timestamp |-> bytes.timestamp.secs_since_epoch * TicksPerSec
                       + bytes.timestamp.subsec_ticks]

\* the spawned task starts: StateTracker::try_new binds the socket, or the task
\* panics and drops the Receiver with whatever the channel holds
ForwarderStart(bind_ok) ==
    /\ fwd_pc = "spawned"
    /\ IF bind_ok
       THEN /\ fwd_pc' = "running"
            /\ UNCHANGED <<queue, rx_closed>>
       ELSE /\ fwd_pc' = "panicked"
            /\ rx_closed' = TRUE
            /\ queue' = <<>>
    /\ UNCHANGED <<now, boundary, clientVars, waiters, attempts, log, enqueued, step,
                   none_parity>>

\* serde_json::to_vec fails on a SystemTime earlier than the Unix epoch
serializable(tracked) == tracked.timestamp >= 0

ForwarderRecvSome_retrying(send_ok) ==
    /\ fwd_pc = "running"
    /\ queue # <<>>
    /\ attempts' = Append(attempts, to_vec(Head(queue)))
    /\ log' = IF send_ok THEN "sent data to output socket"
                         ELSE "failed to write to output socket"
    /\ queue' = IF send_ok THEN Tail(queue) ELSE queue
    /\ UNCHANGED <<now, boundary, clientVars, waiters, rx_closed, enqueued, fwd_pc,
                   step, none_parity>>

ForwarderRecvSome_fatal(send_ok) ==
    /\ fwd_pc = "running"
    /\ queue # <<>>
    /\ attempts' = Append(attempts, to_vec(Head(queue)))
    /\ log' = IF send_ok THEN "sent data to output socket"
                         ELSE "failed to write to output socket"
    /\ queue' = IF send_ok THEN Tail(queue) ELSE <<>>
    /\ rx_closed' = (rx_closed \/ ~send_ok)
    /\ fwd_pc' = IF send_ok THEN fwd_pc ELSE "terminated"
    /\ UNCHANGED <<now, boundary, clientVars, waiters, enqueued, step, none_parity>>

\* run: recv() yields Some(tracked_data); it is serialized and handed to send_to
\* once, whatever send_to answers; an item that does not serialize is only logged
ForwarderRecvSome(send_ok) ==
    /\ fwd_pc = "running"
    /\ queue # <<>>
    /\ IF serializable(Head(queue))
       THEN /\ attempts' = Append(attempts, to_vec(Head(queue)))
            /\ log' = IF send_ok THEN "sent data to output socket"
                                 ELSE "failed to write to output socket"
       ELSE /\ log' = "failed to serialize tracked data"
            /\ UNCHANGED attempts
    /\ queue' = Tail(queue)
    /\ UNCHANGED <<now, boundary, clientVars, waiters, rx_closed, enqueued, fwd_pc,
                   step, none_parity>>

\* run: every Sender is gone and the channel is empty, recv() yields None; the
\* None arm is () and the loop goes round again
ForwarderRecvNone ==
    /\ fwd_pc = "running"
    /\ queue = <<>>
    /\ NoSenders
    /\ none_parity' = ~none_parity
    /\ UNCHANGED <<now, boundary, clientVars, channelVars, fwd_pc, attempts, log, step>>

Forwarder ==
    \/ \E bind_ok \in BOOLEAN : ForwarderStart(bind_ok)
    \/ \E send_ok \in BOOLEAN : ForwarderRecvSome(send_ok)
    \/ ForwarderRecvNone

\* ------------------------------------------------------- specifications
Next ==
    \/ Tick
    \/ \E h \in Handles, id \in Names : set_id(h, id)
    \/ \E h \in Handles, c \in Handles : Clone(h, c)
    \/ \E h \in Handles : Drop(h)
    \/ \E h \in Handles, s \in States : Report(h, s)
    \/ \E h \in Handles : send_state_resume(h)
    \/ Forwarder

Spec == Init /\ [][Next]_vars

\* tokio schedules a spawned task, and a woken sender, whenever it can make progress
FairSpec ==
    /\ Spec
    /\ WF_vars(Forwarder)
    /\ \A h \in Handles : WF_vars(send_state_resume(h))

\* ------------------------------------------------- end-to-end scenario
\* the interval of the scenario (and of the client tests)
ScenarioInterval == 5

\* the scenario's calls, at whole seconds after its t = 0
Script == << [at |-> 0, state |-> Idle],
             [at |-> 2, state |-> Valid],
             [at |-> 2, state |-> Error("disk full")],
             [at |-> 3, state |-> Idle],
             [at |-> 6, state |-> Idle] >>

\* one client, built up to ScenarioInterval seconds before the scenario's t = 0
ScenarioInit ==
    \E created \in 0 .. ScenarioInterval * TicksPerSec, bound \in 1 .. MaxBoundary :
        BuildState(ScenarioInterval, bound, 0 - created, 0)

\* the next call of the script, made at its time once the previous call returned
ScenarioCall ==
    /\ step < Len(Script)
    /\ now = Script[step + 1].at * TicksPerSec
    /\ send_state("built", Script[step + 1].state)
    /\ step' = step + 1

\* the clock runs up to the next call of the script
ScenarioTick ==
    /\ step < Len(Script)
    /\ Sending = {}
    /\ now < Script[step + 1].at * TicksPerSec
    /\ now' = now + 1
    /\ UNCHANGED <<boundary, clientVars, channelVars, forwarderVars, step>>

\* the scenario runs with a forwarder whose socket binds
ScenarioNext ==
    \/ ScenarioCall
    \/ ScenarioTick
    \/ send_state_resume("built")
    \/ ForwarderStart(TRUE)
    \/ \E send_ok \in BOOLEAN : ForwarderRecvSome(send_ok)

ScenarioSpec == ScenarioInit /\ [][ScenarioNext]_vars

\* --------------------------------------------------------------- claims
StatesOf(items) == [i \in 1 .. Len(items) |-> items[i].state]
Serialized(items) == [i \in 1 .. Len(items) |-> to_vec(items[i])]
Window(h) == clients[h].update_interval_in_seconds * TicksPerSec

\* C1: a Valid or Idle send_state made while fewer than update_interval_in_seconds
\* have elapsed since the client's latest_update returns Ok, leaves the channel
\* as it is (nothing is enqueued) and leaves the client, latest_update included,
\* as it is.
SuppressionRule ==
    [][\A h \in Handles, s \in {Idle, Valid} :
         (send_state(h, s) /\ now - clients[h].latest_update < Window(h))
            => /\ ret' = "suppressed"
               /\ queue' = queue
               /\ enqueued' = enqueued
               /\ clients' = clients
               /\ pc' = pc]_vars

\* C1 witness: a call was suppressed while the channel held an item
SuppressedWithItemQueued == ret = "suppressed" /\ queue # <<>>

\* C2: a send_state(Error(m)) made while the channel is open is never
\* suppressed: its TrackedData, with the client's current id and Error(m), is
\* appended to the channel exactly once, at the call or, when the channel was
\* full or other sends were waiting for a slot, when the suspended send resumes.
ErrorsNeverThrottled ==
    [][\A h \in Handles :
         /\ \A m \in Messages :
              (send_state(h, Error(m)) /\ ~rx_closed) =>
                 \/ /\ SlotFree
                    /\ ret' = "enqueued"
                    /\ Len(queue') = Len(queue) + 1
                    /\ SubSeq(queue', 1, Len(queue)) = queue
                    /\ queue'[Len(queue')].id = clients[h].id
                    /\ queue'[Len(queue')].state = Error(m)
                    /\ enqueued' = Append(enqueued, queue'[Len(queue')])
                 \/ /\ ~SlotFree
                    /\ pc'[h] = "sending"
                    /\ tracked_data'[h].id = clients[h].id
                    /\ tracked_data'[h].state = Error(m)
                    /\ queue' = queue
         /\ (send_state_resume(h) /\ ~rx_closed) =>
                 /\ ret' = "enqueued"
                 /\ queue' = Append(queue, tracked_data[h])
                 /\ enqueued' = Append(enqueued, tracked_data[h])]_vars

\* C2 witness: the same error was enqueued twice by one reporter inside its window
RepeatedErrorEnqueued ==
    /\ Len(enqueued) >= 2
    /\ is_error(enqueued[1].state)
    /\ enqueued[2] = enqueued[1]
    /\ status["clone"] = "unused"
    /\ status["built"] = "live"
    /\ clients["built"].update_interval_in_seconds > 0

\* C3: a Valid or Idle send_state made by the client build returned, less than
\* update_interval_in_seconds after it was created (clock 0), enqueues nothing
\* and returns Ok; while nothing has been enqueued the channel stays empty.
FreshClientWindow ==
    [][\A s \in {Idle, Valid} :
         (send_state("built", s) /\ now < Window("built"))
            => /\ ret' = "suppressed"
               /\ queue' = queue
               /\ enqueued' = enqueued
               /\ (enqueued = <<>> => queue' = <<>>)]_vars

\* C3 witness: the only client's report was suppressed before anything was enqueued
FirstReportSuppressed ==
    /\ ret = "suppressed"
    /\ enqueued = <<>>
    /\ status["clone"] = "unused"
    /\ fwd_pc = "spawned"

\* C4: after a send_state call that enqueues its TrackedData, the client's
\* latest_update is the time of that call (between the call and its return).
LastSentIsTimeOfEnqueue ==
    [][\A h \in Handles :
         (/\ (\E s \in States : send_state(h, s)) \/ send_state_resume(h)
          /\ ret' = "enqueued"
          /\ Len(enqueued') = Len(enqueued) + 1)
            => /\ enqueued'[Len(enqueued')].timestamp <= clients'[h].latest_update
               /\ clients'[h].latest_update <= now]_vars

\* C5: of the Valid/Idle calls one client makes less than
\* update_interval_in_seconds apart, only the first can be enqueued: the channel
\* never accepts two non-error items of one client within one window.
AtMostFirstOfWindowEnqueued ==
    (status["built"] = "live" /\ status["clone"] = "unused") =>
        \A i, j \in DOMAIN enqueued :
            (/\ i < j
             /\ ~is_error(enqueued[i].state)
             /\ ~is_error(enqueued[j].state))
                => enqueued[j].timestamp - enqueued[i].timestamp >= Window("built")

\* C6: once the five calls of the scenario have returned, the channel has
\* accepted exactly Idle (t = 0) and Error("disk full") (t = 2), in that order.
ScenarioOutcome ==
    (step = Len(Script) /\ Sending = {}) =>
        StatesOf(enqueued) = <<Idle, Error("disk full")>>

\* C7: what run() has taken from the channel and handed to the socket is, at
\* every moment, a prefix of what send_state calls enqueued, in the same order.
FifoOrder ==
    /\ Len(attempts) <= Len(enqueued)
    /\ attempts = SubSeq(Serialized(enqueued), 1, Len(attempts))

\* C7 witness: a Valid of one reporter, then an Error of another, were handed over
ValidThenErrorHandedOver ==
    /\ Len(attempts) >= 2
    /\ from_slice(attempts[1]).state = Valid
    /\ is_error(from_slice(attempts[2]).state)
    /\ attempts[1].id # attempts[2].id

\* C8: once every client handle is dropped and the channel is drained, the
\* running forwarder eventually terminates.
ForwarderTerminates ==
    (NoSenders /\ queue = <<>> /\ fwd_pc = "running") ~> (fwd_pc = "terminated")

\* C9: every item a send_state call enqueued has been handed to the socket
\* exactly once or is still waiting in the channel: none is lost, none repeated.
NoLossNoDuplication ==
    attempts \o Serialized(queue) = Serialized(enqueued)

\* C10: a send_state call that is not suppressed and finds the Receiver gone
\* returns the error, enqueues nothing and leaves the client (id, latest_update)
\* as it is.
QueueFailureSurfaced ==
    [][\A h \in Handles :
         (/\ rx_closed
          /\ \/ \E s \in States :
                  /\ send_state(h, s)
                  /\ is_error(s) \/ now - clients[h].latest_update >= Window(h)
             \/ send_state_resume(h))
            => /\ ret' = "failed"
               /\ queue' = queue
               /\ enqueued' = enqueued
               /\ clients' = clients]_vars

\* C10 witness: a call returned the error from a closed channel
SendFailedOnClosedQueue == ret = "failed" /\ rx_closed /\ fwd_pc = "panicked"

\* C11: when binding the socket fails, the embedding code holds no usable
\* client: no StateTrackerClient is live once the forwarder has failed to start.
NoClientWithoutForwarder ==
    fwd_pc = "panicked" => NoSenders

SendFailed == log = "failed to write to output socket"

\* C13: when send_to fails for an item the forwarder drops that one item (it is
\* taken from the channel, not kept or put back), never makes more send
\* attempts than items it received, stays running, and goes on to receive and
\* send the items that follow.
BestEffortForwarding ==
    /\ [][ForwarderRecvSome(FALSE) =>
            /\ queue' = Tail(queue)
            /\ Len(attempts') = Len(attempts) + 1
            /\ fwd_pc' = "running"
            /\ rx_closed' = rx_closed]_vars
    /\ [](Len(attempts) + Len(queue) <= Len(enqueued))
    /\ [](SendFailed => fwd_pc = "running")
    /\ \A k \in 0 .. MaxEnqueued :
          (SendFailed /\ queue # <<>> /\ Len(attempts) = k) ~> (Len(attempts) > k)

\* C13 witness: a send failed and the forwarder runs on with a later item queued
SendFailedWithItemWaiting ==
    /\ SendFailed
    /\ Len(attempts) >= 1
    /\ queue # <<>>
    /\ fwd_pc = "running"

\* C14: whether send_to succeeds or fails, the forwarder's step has the same
\* effect on everything a send_state call reads or returns (the clients, the
\* channel, the closed flag): only the log line differs; and send_state returns
\* an error only for a channel closed by the failed bind, never for a datagram.
DeliveryOutcomeInvisible ==
    /\ [][\A send_ok \in BOOLEAN :
            ForwarderRecvSome(send_ok) =>
               /\ clientVars' = clientVars
               /\ queue' = Tail(queue)
               /\ waiters' = waiters
               /\ rx_closed' = rx_closed
               /\ enqueued' = enqueued
               /\ fwd_pc' = fwd_pc
               /\ now' = now]_vars
    /\ [](ret = "failed" => rx_closed /\ fwd_pc = "panicked")

\* C14 witness: after a failed datagram send a report was still accepted
ReportAcceptedAfterSendFailed ==
    /\ SendFailed
    /\ ret = "enqueued"
    /\ queue # <<>>
    /\ \A i \in DOMAIN queue : queue[i].timestamp = now
    /\ now > 0
    /\ ~rx_closed

\* C15: set_id changes nothing that was already reported (the items queued,
\* suspended, enqueued or handed to the socket keep their id); every item
\* enqueued later carries the id its client has at that call; and an item once
\* enqueued is never altered.
RenameAffectsOnlyLaterReports ==
    /\ [][\A h \in Handles, id \in Names :
            set_id(h, id) =>
               /\ clients'[h].id = id
               /\ queue' = queue
               /\ enqueued' = enqueued
               /\ attempts' = attempts
               /\ tracked_data' = tracked_data]_vars
    /\ [][\A h \in Handles, s \in States :
            (Len(enqueued') > Len(enqueued) /\ send_state(h, s))
               => enqueued'[Len(enqueued')].id = clients[h].id]_vars
    /\ [][SubSeq(enqueued', 1, Len(enqueued)) = enqueued]_vars

\* C15 witness: the only client reported as "default", renamed itself, reported again
ReportedBeforeAndAfterRename ==
    /\ Len(enqueued) >= 2
    /\ enqueued[1].id = DefaultId
    /\ enqueued[2].id \in Names
    /\ status["clone"] = "unused"

\* C16: decoding the payload of every datagram the forwarder emitted gives back
\* the TrackedData that was enqueued: the same id, state (variant and message)
\* and timestamp.
RoundTrip ==
    \A i \in DOMAIN attempts :
        /\ i <= Len(enqueued)
        /\ from_slice(attempts[i]) = enqueued[i]

\* C16 witness: an Error stamped between two whole seconds was emitted
ErrorWithSubsecondStampEmitted ==
    \E i \in DOMAIN attempts :
        /\ is_error(enqueued[i].state)
        /\ enqueued[i].timestamp % TicksPerSec # 0
        /\ enqueued[i].id \in Names

\* the step is a send_state call of handle h, or the resumption of one
SendStepOf(h) == (\E s \in States : send_state(h, s)) \/ send_state_resume(h)

\* C17: a client's latest_update changes only in a step in which that client's
\* send_state call enqueues its TrackedData; suppressed calls, calls failing on
\* a closed channel, set_id and the forwarder's steps leave latest_update as it
\* is, and update_interval_in_seconds never changes.
LastSentOnlyAdvancesOnSend ==
    [][\A h \in Handles :
         (status[h] = "live" /\ status'[h] = "live") =>
            /\ clients'[h].update_interval_in_seconds
                   = clients[h].update_interval_in_seconds
            /\ clients'[h].latest_update # clients[h].latest_update
                  => /\ SendStepOf(h)
                     /\ Len(enqueued') = Len(enqueued) + 1]_vars

\* C17 witness: after a suppressed report, a rename and a forwarder step, later
\* than its creation, the client still has the latest_update it was built with
TimerUntouchedBySuppressedAndRename ==
    /\ ret = "suppressed"
    /\ now > 0
    /\ status["built"] = "live"
    /\ clients["built"].id \in Names
    /\ clients["built"].latest_update = 0
    /\ attempts # <<>>

\* C18: a clone starts as a copy of the original (id, latest_update, interval)
\* and leaves the original as it is; afterwards a step that changes the struct,
\* the pending send or a suppression decision of one handle is never a set_id or
\* a send_state of another handle.
ClonesAreIndependent ==
    /\ [][\A h, c \in Handles :
            (status'[c] # status[c] /\ Clone(h, c))
               => clients'[c] = clients[h] /\ clients'[h] = clients[h]]_vars
    /\ [][\A h \in Handles : \A o \in Handles \ {h} :
            (\/ clients'[o] # clients[o]
             \/ pc'[o] # pc[o]
             \/ \E s \in States :
                   suppressed(clients'[o], s, now') # suppressed(clients[o], s, now))
               => ~(SendStepOf(h) \/ \E id \in Names : set_id(h, id))]_vars

\* C18 witness: two live handles of one reporter, one renamed and one not, after
\* a report went through
ClonesDiverged ==
    /\ status["built"] = "live"
    /\ status["clone"] = "live"
    /\ clients["built"].id # clients["clone"].id
    /\ clients["built"].latest_update = clients["clone"].latest_update
    /\ enqueued # <<>>

\* C19: a Valid or Idle send_state made when the whole seconds elapsed since
\* latest_update are at least update_interval_in_seconds is never suppressed and
\* is enqueued: its TrackedData is appended at the call, or the call suspends on
\* the full channel to append it later; with an interval of 0 no call is
\* suppressed.
DueReportEnqueued ==
    /\ [][\A h \in Handles, s \in {Idle, Valid} :
            (/\ send_state(h, s)
             /\ (now - clients[h].latest_update) \div TicksPerSec
                    >= clients[h].update_interval_in_seconds)
               => \/ /\ ret' = "enqueued"
                     /\ enqueued' = Append(enqueued,
                            [id |-> clients[h].id, state |-> s, timestamp |-> now])
                  \/ /\ pc'[h] = "sending"
                     /\ tracked_data'[h].state = s]_vars
    /\ [][\A h \in Handles, s \in States :
            (send_state(h, s) /\ clients[h].update_interval_in_seconds = 0)
               => (pc'[h] = "sending" \/ ret' # "suppressed")]_vars

\* The boundary of the window apart from the closed channel: a due Valid or
\* Idle send_state is not suppressed; with the channel open and a slot free it
\* is enqueued at once, it suspends on a full channel, and on a closed channel
\* it fails.
WindowBoundary ==
    /\ [][\A h \in Handles, s \in {Idle, Valid} :
            (/\ send_state(h, s)
             /\ (now - clients[h].latest_update) \div TicksPerSec
                    >= clients[h].update_interval_in_seconds)
               => \/ /\ rx_closed
                     /\ ret' = "failed"
                     /\ enqueued' = enqueued
                  \/ /\ ~rx_closed
                     /\ SlotFree
                     /\ ret' = "enqueued"
                     /\ enqueued' = Append(enqueued,
                            [id |-> clients[h].id, state |-> s, timestamp |-> now])
                  \/ /\ ~rx_closed
                     /\ ~SlotFree
                     /\ pc'[h] = "sending"
                     /\ tracked_data'[h].state = s]_vars
    /\ [][\A h \in Handles, s \in States :
            (send_state(h, s) /\ clients[h].update_interval_in_seconds = 0)
               => (pc'[h] = "sending" \/ ret' # "suppressed")]_vars

\* an Idle or Valid sent exactly one interval after creation was enqueued
EnqueuedExactlyAtInterval ==
    /\ status["built"] = "live"
    /\ status["clone"] = "unused"
    /\ clients["built"].update_interval_in_seconds > 0
    /\ Len(enqueued) >= 1
    /\ ~is_error(enqueued[1].state)
    /\ enqueued[1].timestamp = Window("built")

\* C20: a Valid or Idle send_state made inside the window returns Ok even when
\* the channel is already closed; a send_state call returns the closed-channel
\* error only for an Error state or outside the window.
SuppressionHidesClosedQueue ==
    /\ [][\A h \in Handles, s \in {Idle, Valid} :
            (/\ rx_closed
             /\ now - clients[h].latest_update < Window(h)
             /\ send_state(h, s))
               => /\ ret' = "suppressed"
                  /\ pc'[h] = "idle"]_vars
    /\ [][\A h \in Handles, s \in States :
            (ret' = "failed" /\ send_state(h, s))
               => /\ rx_closed
                  /\ is_error(s) \/ now - clients[h].latest_update >= Window(h)]_vars

\* C20 witness: a report was suppressed although the forwarder never started
SuppressedOnClosedQueue ==
    /\ ret = "suppressed"
    /\ rx_closed
    /\ fwd_pc = "panicked"

====
